---- MODULE Spec2Model ----
(***************************************************************************)
(* A model of accessories.py: CustomDict.set, chunks, flatten, nth, fetch, *)
(* multisub and cleave.                                                    *)
(*                                                                         *)
(* Python values are modelled as follows.                                  *)
(*   str            a sequence of one-character strings                   *)
(*   list (flat)    a sequence                                             *)
(*   CustomDict     a function from its keys to their values (data)        *)
(*   kwargs, dict   a sequence of <<key, value>> pairs with distinct keys, *)
(*                  in insertion order                                     *)
(*   nested value   a record [t, v, items]: t is the Python type, v the    *)
(*                  scalar, items the children (pairs for a dict)          *)
(*   iterator       the sequence of the elements it has not produced yet   *)
(* A call is the record of its arguments as they were when it was made,    *)
(* and its result is Return(value), ReturnNone or Raise(exception); a      *)
(* generator's result is the list of everything it yields.                 *)
(***************************************************************************)
EXTENDS Integers, Sequences, FiniteSets, TLC

VARIABLES data, it, call, result

vars == <<data, it, call, result>>

\* ------------------------------------------------------------- bounds
MaxLen == 3
MaxSize == 3
MaxIndex == 3
MaxNodes == 4
MaxJson == 4

\* ------------------------------------------------------------- values
Pending == [kind |-> "pending", val |-> <<>>]
Return(v) == [kind |-> "return", val |-> v]
ReturnNone == [kind |-> "none", val |-> <<>>]
Raise(e) == [kind |-> "raise", val |-> e]
NoCall == [op |-> "none"]

Min(a, b) == IF a < b THEN a ELSE b
Max(a, b) == IF a < b THEN b ELSE a

SeqsUpTo(S, n) == UNION {[1..k -> S] : k \in 0..n}

RECURSIVE Concat(_)
Concat(ss) == IF ss = <<>> THEN <<>> ELSE Head(ss) \o Concat(Tail(ss))

\* --------------------------------------------------- CustomDict.set
EmptyDict == [k \in {} |-> 0]

DictKeys == {"a", "b", "c"}
DictVals == {1, 2}

SetItem(d, key, value) == [k \in DOMAIN d \cup {key} |-> IF k = key THEN value ELSE d[k]]

RECURSIVE SetLoopOverwrite(_, _)
SetLoopOverwrite(d, kwargs) ==
  IF kwargs = <<>> THEN d
  ELSE SetLoopOverwrite(SetItem(d, Head(kwargs)[1], Head(kwargs)[2]), Tail(kwargs))

\* for key, value in kwargs.items(): if key not in self: __setitem__(key, value)
RECURSIVE SetLoop(_, _)
SetLoop(d, kwargs) ==
  IF kwargs = <<>> THEN d
  ELSE LET key == Head(kwargs)[1]
           value == Head(kwargs)[2]
       IN SetLoop(IF key \notin DOMAIN d THEN SetItem(d, key, value) ELSE d,
                  Tail(kwargs))

\* keyword arguments: at most two pairs, their keys distinct
Kwargs ==
  {<<>>} \cup {<< <<k, v>> >> : k \in DictKeys, v \in DictVals}
         \cup {<< <<k1, v1>>, <<k2, v2>> >> :
                 <<k1, k2>> \in {p \in DictKeys \X DictKeys : p[1] # p[2]},
                 <<v1, v2>> \in DictVals \X DictVals}

Set(assign, kwargs) ==
  /\ call' = [op |-> "set", self |-> data, assign |-> assign, kwargs |-> kwargs]
  /\ data' = SetLoop(data, kwargs)
  /\ result' = IF assign = TRUE THEN Return(data') ELSE ReturnNone
  /\ UNCHANGED it

InitSet == data = EmptyDict /\ it = <<>> /\ call = NoCall /\ result = Pending
NextSet == \E assign \in BOOLEAN, kwargs \in Kwargs : Set(assign, kwargs)
SpecSet == InitSet /\ [][NextSet]_vars

\* ------------------------------------------------------------- nth
Elems == {10, 20, 30}

\* next(islice(iterable, start, start + 1)) on an iterator: the elements before
\* start are consumed, then one more; exhaustion at any point ends the
\* iteration and leaves the iterator empty
IsliceNext(iterable, start) ==
  IF Len(iterable) > start
  THEN [res |-> Return(iterable[start + 1]),
        rest |-> SubSeq(iterable, start + 2, Len(iterable))]
  ELSE [res |-> Raise("StopIteration"), rest |-> <<>>]

nthOneBased(iterable, index) ==
  IF index < 0 THEN [res |-> Raise("ValueError"), rest |-> iterable]
  ELSE IsliceNext(iterable, index + 1)

nthDrain(iterable, index) ==
  IF index < 0 THEN [res |-> Raise("ValueError"), rest |-> iterable]
  ELSE [res |-> IsliceNext(iterable, index).res, rest |-> <<>>]

\* return next(islice(iterable, index, index + 1)); islice refuses a negative
\* start before it touches the iterator
nth(iterable, index) ==
  IF index < 0 THEN [res |-> Raise("ValueError"), rest |-> iterable]
  ELSE IsliceNext(iterable, index)

Nth(index) ==
  /\ call' = [op |-> "nth", iterable |-> it, index |-> index]
  /\ result' = nth(it, index).res
  /\ it' = nth(it, index).rest
  /\ UNCHANGED data

InitNth ==
  /\ it \in SeqsUpTo(Elems, MaxLen)
  /\ data = EmptyDict /\ call = NoCall /\ result = Pending
NextNth == \E index \in -1..MaxIndex : Nth(index)
SpecNth == InitNth /\ [][NextNth]_vars

\* ------------------------------------------------------------- chunks
\* range(start, stop, step) as the list of its values; a zero step is refused
RECURSIVE RangeUp(_, _, _)
RangeUp(start, stop, step) ==
  IF start >= stop THEN <<>> ELSE <<start>> \o RangeUp(start + step, stop, step)

RECURSIVE RangeDown(_, _, _)
RangeDown(start, stop, step) ==
  IF start <= stop THEN <<>> ELSE <<start>> \o RangeDown(start + step, stop, step)

Range(start, stop, step) ==
  IF step = 0 THEN Raise("ValueError")
  ELSE IF step > 0 THEN Return(RangeUp(start, stop, step))
  ELSE Return(RangeDown(start, stop, step))

\* s[lo:hi] with step 1: a negative bound counts from the end, both are
\* clamped to 0..len(s), and hi <= lo gives the empty sequence
SliceIndex(n, i) == IF i < 0 THEN Max(n + i, 0) ELSE Min(i, n)

Slice(s, lo, hi) == SubSeq(s, SliceIndex(Len(s), lo) + 1, SliceIndex(Len(s), hi))

chunksNoStep(iterable, size) ==
  LET r == Range(0, Len(iterable), IF size = 0 THEN 0 ELSE 1)
  IN IF r.kind = "raise" THEN r
     ELSE Return([j \in 1..Len(r.val) |-> Slice(iterable, r.val[j], r.val[j] + size)])

\* for i in range(0, len(iterable), size): yield iterable[i:i + size]
chunks(iterable, size) ==
  LET r == Range(0, Len(iterable), size)
  IN IF r.kind = "raise" THEN r
     ELSE Return([j \in 1..Len(r.val) |-> Slice(iterable, r.val[j], r.val[j] + size)])

ChunkCalls ==
  {[op |-> "chunks", iterable |-> s, size |-> n] :
     s \in SeqsUpTo(Elems, MaxLen), n \in -MaxSize..MaxSize}

Chunks ==
  /\ call.op = "chunks" /\ result = Pending
  /\ result' = chunks(call.iterable, call.size)
  /\ UNCHANGED <<data, it, call>>

InitChunks == call \in ChunkCalls /\ result = Pending /\ data = EmptyDict /\ it = <<>>
SpecChunks == InitChunks /\ [][Chunks]_vars

\* ------------------------------------------------------------- cleave
Alphabet == {"a", "b", "@"}
Strings == SeqsUpTo(Alphabet, MaxLen)

\* the positions (0-based) at which sub occurs in string
Occurrences(string, sub) ==
  {p \in 0..(Len(string) - Len(sub)) : SubSeq(string, p + 1, p + Len(sub)) = sub}

\* sub in string
Contains(string, sub) == Occurrences(string, sub) # {}

\* string.find(sub): the lowest position, -1 when there is none
Find(string, sub) ==
  IF Occurrences(string, sub) = {} THEN -1
  ELSE CHOOSE p \in Occurrences(string, sub) : \A q \in Occurrences(string, sub) : p <= q

cleaveKeepDelimiter(string, char, anterior) ==
  IF Contains(string, char)
  THEN LET pos == Find(string, char)
       IN IF anterior = TRUE THEN Slice(string, 0, pos)
          ELSE Slice(string, pos, Len(string))
  ELSE string

cleave(string, char, anterior) ==
  IF Contains(string, char)
  THEN LET pos == Find(string, char)
       IN IF anterior = TRUE THEN Slice(string, 0, pos)
          ELSE Slice(string, pos + 1, Len(string))
  ELSE string

\* the delimiter is any str: the empty one and longer ones are accepted too
Delimiters == {c \in Strings : Len(c) <= 2}

CleaveCalls ==
  {[op |-> "cleave", string |-> s, char |-> c, anterior |-> a] :
     s \in Strings, c \in Delimiters, a \in BOOLEAN}

Cleave ==
  /\ call.op = "cleave" /\ result = Pending
  /\ result' = Return(cleave(call.string, call.char, call.anterior))
  /\ UNCHANGED <<data, it, call>>

InitCleave == call \in CleaveCalls /\ result = Pending /\ data = EmptyDict /\ it = <<>>
SpecCleave == InitCleave /\ [][Cleave]_vars

\* ------------------------------------------------------ nested values
Scalar(n) == [t |-> "int", v |-> n, items |-> <<>>]
List(xs) == [t |-> "list", v |-> 0, items |-> xs]
Tuple(xs) == [t |-> "tuple", v |-> 0, items |-> xs]
\* a dict's items are its <<key, value>> pairs in insertion order
Dict(ps) == [t |-> "dict", v |-> 0, items |-> ps]

Scalars == {Scalar(1), Scalar(2)}

\* the children of a node, in order: a dict's children are its values
Children(x) ==
  IF x.t = "dict" THEN [i \in 1..Len(x.items) |-> x.items[i][2]] ELSE x.items

\* ------------------------------------------------------------- flatten
RECURSIVE flatten(_)
RECURSIVE flattenItems(_)

\* the loop of flatten over the items still to visit
flattenItems(items) ==
  IF items = <<>> THEN <<>>
  ELSE LET item == Head(items)
       IN (IF item.t \in {"list", "tuple"} THEN flatten(item) ELSE <<item>>)
          \o flattenItems(Tail(items))

flattenShallow(iterable) ==
  LET one(item) == IF item.t \in {"list", "tuple"} THEN item.items ELSE <<item>>
  IN Concat([i \in 1..Len(iterable.items) |-> one(iterable.items[i])])

flatten(iterable) == flattenItems(iterable.items)

\* nested lists and tuples of scalars, by number of nodes: forests[n] are
\* the sequences of values that have n nodes in all, and the values of k
\* nodes are the scalars and empty sequences (k = 1) or the lists and tuples
\* of a forest of k - 1 nodes
RECURSIVE FlatForests(_, _)
FlatForests(forests, n) ==
  IF n > MaxNodes THEN forests
  ELSE LET values(k) ==
             IF k = 1 THEN Scalars \cup {List(<<>>), Tuple(<<>>)}
             ELSE UNION {{List(f) : f \in forests[k - 1]}, {Tuple(f) : f \in forests[k - 1]}}
           next == UNION {{<<x>> \o f : x \in values(k), f \in forests[n - k]} : k \in 1..n}
       IN CHOOSE all \in {FlatForests(more, n + 1) : more \in {forests @@ (n :> next)}} : TRUE

FlatForestsByNodes == FlatForests(0 :> {<<>>}, 1)

FlattenCalls ==
  {[op |-> "flatten", iterable |-> List(f)] : f \in UNION {FlatForestsByNodes[n] : n \in 0..MaxNodes}}

Flatten ==
  /\ call.op = "flatten" /\ result = Pending
  /\ result' = Return(flatten(call.iterable))
  /\ UNCHANGED <<data, it, call>>

InitFlatten == call \in FlattenCalls /\ result = Pending /\ data = EmptyDict /\ it = <<>>
SpecFlatten == InitFlatten /\ [][Flatten]_vars

\* ------------------------------------------------------------- fetch
RECURSIVE fetch(_, _)
RECURSIVE fetchItems(_, _)
RECURSIVE fetchList(_, _)

\* the loop over iterable.items() of a dict
fetchItems(items, token) ==
  IF items = <<>> THEN <<>>
  ELSE LET key == Head(items)[1]
           value == Head(items)[2]
       IN (IF key = token THEN <<value>> ELSE <<>>)
          \o (IF value.t \in {"dict", "list"} THEN fetch(value, token) ELSE <<>>)
          \o fetchItems(Tail(items), token)

\* the loop over the items of a list
fetchList(items, token) ==
  IF items = <<>> THEN <<>>
  ELSE LET item == Head(items)
       IN (IF item.t \in {"dict", "list"} THEN fetch(item, token) ELSE <<>>)
          \o fetchList(Tail(items), token)

fetchFirstLevel(iterable, token) ==
  IF iterable.t = "dict"
  THEN Concat([i \in 1..Len(iterable.items) |->
                 IF iterable.items[i][1] = token THEN <<iterable.items[i][2]>>
                 ELSE fetch(iterable.items[i][2], token)])
  ELSE IF iterable.t = "list" THEN fetchList(iterable.items, token)
  ELSE <<>>

fetch(iterable, token) ==
  IF iterable.t = "dict" THEN fetchItems(iterable.items, token)
  ELSE IF iterable.t = "list" THEN fetchList(iterable.items, token)
  ELSE <<>>

FetchKeys == {"a", "b"}

\* JSON-like values (scalars, lists, and dicts of one or two entries with
\* distinct keys, or none) by number of nodes, as above
JsonValuesOf(forests, k) ==
  IF k = 1 THEN Scalars \cup {List(<<>>), Dict(<<>>)}
  ELSE UNION {{List(f) : f \in forests[k - 1]},
              {Dict(<< <<key, f[1]>> >>) :
                 key \in FetchKeys, f \in {g \in forests[k - 1] : Len(g) = 1}},
              {Dict(<< <<keys[1], f[1]>>, <<keys[2], f[2]>> >>) :
                 keys \in {ks \in FetchKeys \X FetchKeys : ks[1] # ks[2]},
                 f \in {g \in forests[k - 1] : Len(g) = 2}}}

RECURSIVE JsonForests(_, _)
JsonForests(forests, n) ==
  IF n >= MaxJson THEN forests
  ELSE LET next == UNION {{<<x>> \o f : x \in JsonValuesOf(forests, k), f \in forests[n - k]} :
                            k \in 1..n}
       IN CHOOSE all \in {JsonForests(more, n + 1) : more \in {forests @@ (n :> next)}} : TRUE

JsonForestsByNodes == JsonForests(0 :> {<<>>}, 1)

\* the values of at most MaxJson nodes
JsonValues == UNION {JsonValuesOf(JsonForestsByNodes, n) : n \in 1..MaxJson}

FetchCalls == {[op |-> "fetch", iterable |-> x, token |-> k] : x \in JsonValues, k \in FetchKeys}

Fetch ==
  /\ call.op = "fetch" /\ result = Pending
  /\ result' = Return(fetch(call.iterable, call.token))
  /\ UNCHANGED <<data, it, call>>

InitFetch == call \in FetchCalls /\ result = Pending /\ data = EmptyDict /\ it = <<>>
SpecFetch == InitFetch /\ [][Fetch]_vars

\* ------------------------------------------------------------- multisub
SubAlphabet == {"a", "b", "."}
\* the characters re.escape puts a backslash before
Special == {".", "|", "\\"}

\* "sep".join(parts)
RECURSIVE Join(_, _)
Join(parts, sep) ==
  IF parts = <<>> THEN <<>>
  ELSE IF Len(parts) = 1 THEN Head(parts)
  ELSE Head(parts) \o sep \o Join(Tail(parts), sep)

\* re.escape(key)
Escape(key) ==
  Concat([i \in 1..Len(key) |-> IF key[i] \in Special THEN <<"\\", key[i]>> ELSE <<key[i]>>])

Literal(c) == [any |-> FALSE, c |-> c]
AnyChar == [any |-> TRUE, c |-> "."]

\* re.compile(pattern): the alternatives of the pattern, each a sequence of
\* atoms; a backslash makes the next character literal, a bare "|" ends an
\* alternative and a bare "." matches any character
RECURSIVE Compile(_, _, _)
Compile(pattern, cur, acc) ==
  IF pattern = <<>> THEN Append(acc, cur)
  ELSE IF Head(pattern) = "\\" /\ Len(pattern) >= 2
       THEN Compile(Tail(Tail(pattern)), Append(cur, Literal(pattern[2])), acc)
  ELSE IF Head(pattern) = "|" THEN Compile(Tail(pattern), <<>>, Append(acc, cur))
  ELSE IF Head(pattern) = "." THEN Compile(Tail(pattern), Append(cur, AnyChar), acc)
  ELSE Compile(Tail(pattern), Append(cur, Literal(Head(pattern))), acc)

\* the alternative matches the text of string that starts at pos (0-based)
MatchesAt(alt, string, pos) ==
  /\ pos + Len(alt) <= Len(string)
  /\ \A i \in 1..Len(alt) : alt[i].any \/ alt[i].c = string[pos + i]

\* the alternatives that may match at pos: all of them, but an empty match is
\* refused where the previous match was empty and ended
Candidates(alts, string, pos, must_advance) ==
  {j \in 1..Len(alts) : MatchesAt(alts[j], string, pos) /\ (must_advance => Len(alts[j]) > 0)}

\* the end of the match at pos, -1 when there is none: the first alternative
\* (in pattern order) that matches wins
MatchEnd(alts, string, pos, must_advance) ==
  LET c == Candidates(alts, string, pos, must_advance)
  IN IF c = {} THEN -1
     ELSE pos + Len(alts[CHOOSE j \in c : \A k \in c : j <= k])

\* the leftmost match at or after start: <<begin, end>>, <<-1, -1>> when there
\* is none; must_advance constrains the match at start only
RECURSIVE Search(_, _, _, _)
Search(alts, string, start, must_advance) ==
  IF start > Len(string) THEN <<-1, -1>>
  ELSE LET e == MatchEnd(alts, string, start, must_advance)
       IN IF e >= 0 THEN <<start, e>> ELSE Search(alts, string, start + 1, FALSE)

\* characters[match.group(0)]
Lookup(characters, text) ==
  IF \E j \in 1..Len(characters) : characters[j][1] = text
  THEN Return(characters[CHOOSE j \in 1..Len(characters) : characters[j][1] = text][2])
  ELSE Raise("KeyError")

\* regex.sub(repl, string) from the scan position start on, the text before i
\* being already copied: the text up to the match is copied, the match is
\* replaced by what repl returns, and the scan resumes at the end of the match
RECURSIVE Sub(_, _, _, _, _, _)
Sub(alts, characters, string, i, start, must_advance) ==
  LET m == Search(alts, string, start, must_advance)
  IN IF m[1] < 0 THEN Return(SubSeq(string, i + 1, Len(string)))
     ELSE LET rep == Lookup(characters, SubSeq(string, m[1] + 1, m[2]))
              rest == Sub(alts, characters, string, m[2], m[2], m[1] = m[2])
          IN IF rep.kind = "raise" THEN rep
             ELSE IF rest.kind = "raise" THEN rest
             ELSE Return(SubSeq(string, i + 1, m[1]) \o rep.val \o rest.val)

Keys(characters) == [j \in 1..Len(characters) |-> characters[j][1]]

\* regex = re.compile("|".join(map(re.escape, characters.keys())))
\* return regex.sub(lambda match: characters[match.group(0)], string)
multisub(characters, string) ==
  LET keys == Keys(characters)
      regex == Compile(Join([j \in 1..Len(keys) |-> Escape(keys[j])], <<"|">>), <<>>, <<>>)
  IN Sub(regex, characters, string, 0, 0, FALSE)

SubKeys == {k \in SeqsUpTo(SubAlphabet, MaxLen) : Len(k) <= 2}
SubVals == {v \in SeqsUpTo(SubAlphabet, MaxLen) : Len(v) <= 1}
SubPairs == SubKeys \X SubVals

\* substitution dicts of at most two entries, their keys distinct
Characters ==
  UNION {{<<>>}, {<<p>> : p \in SubPairs},
         {<<p, q>> : <<p, q>> \in {pq \in SubPairs \X SubPairs : pq[1][1] # pq[2][1]}}}

MultisubCalls ==
  {[op |-> "multisub", characters |-> c, string |-> s] :
     c \in Characters, s \in SeqsUpTo(SubAlphabet, MaxLen)}

Multisub ==
  /\ call.op = "multisub" /\ result = Pending
  /\ result' = multisub(call.characters, call.string)
  /\ UNCHANGED <<data, it, call>>

InitMultisub == call \in MultisubCalls /\ result = Pending /\ data = EmptyDict /\ it = <<>>
SpecMultisub == InitMultisub /\ [][Multisub]_vars

\* ------------------------------------------- every operation but nth, chunks
Dicts == UNION {[ks -> DictVals] : ks \in SUBSET DictKeys}

InitTotal ==
  /\ result = Pending /\ it = <<>>
  /\ \/ call = NoCall /\ data \in Dicts
     \/ /\ \E calls \in {FlattenCalls, FetchCalls, MultisubCalls, CleaveCalls} : call \in calls
        /\ data = EmptyDict
NextTotal ==
  \/ \E assign \in BOOLEAN : Set(assign, <<>>)
  \/ Flatten
  \/ Fetch
  \/ Multisub
  \/ Cleave
SpecTotal == InitTotal /\ [][NextTotal]_vars

\* ------------------------------------------------------------- claims
Done(op) == call.op = op /\ result # Pending

\* C1: a set call never changes the value of a key that was present before
\* it, whatever assign is; so a key keeps the value it first got.
C1_SetNeverOverwrites ==
  [][\A k \in DOMAIN data : k \in DOMAIN data' /\ data'[k] = data[k]]_vars

\* a set call that named a present key with another value, and added a key
C1_Witness ==
  /\ call.op = "set"
  /\ \E i \in 1..Len(call.kwargs) :
       /\ call.kwargs[i][1] \in DOMAIN call.self
       /\ call.self[call.kwargs[i][1]] # call.kwargs[i][2]
       /\ data[call.kwargs[i][1]] = call.self[call.kwargs[i][1]]
  /\ DOMAIN data # DOMAIN call.self

\* C2: for a positive size the chunks, concatenated in order, are the
\* sequence; every chunk but the last has length size, the last is non-empty
\* and no longer than size, and an empty sequence has no chunk.
C2_ChunksReconstruct ==
  Done("chunks") /\ call.size > 0 =>
    /\ result.kind = "return"
    /\ Concat(result.val) = call.iterable
    /\ \A j \in 1..Len(result.val) :
         /\ j < Len(result.val) => Len(result.val[j]) = call.size
         /\ Len(result.val[j]) >= 1 /\ Len(result.val[j]) <= call.size
    /\ call.iterable = <<>> => result.val = <<>>

\* three elements in chunks of two: a full chunk and a shorter last one
C2_Witness ==
  /\ Done("chunks") /\ call.size = 2 /\ call.iterable = <<10, 20, 30>>
  /\ result = Return(<< <<10, 20>>, <<30>> >>)

\* C8: chunks with a size of zero or less signals an invalid argument, for
\* every sequence.
C8_NonPositiveSizeSignals ==
  Done("chunks") /\ call.size <= 0 => result.kind = "raise"

\* C6: nth with an index >= 0 returns the element at that position when the
\* iterable has more than index elements, and otherwise returns no value but
\* signals (StopIteration) that the iterable ended before that position.
C6_NthElementOrSignal ==
  call.op = "nth" /\ call.index >= 0 =>
    IF Len(call.iterable) > call.index
    THEN result = Return(call.iterable[call.index + 1])
    ELSE result = Raise("StopIteration")

\* nth(iter([]), 0)
C6_Witness ==
  /\ call.op = "nth" /\ call.iterable = <<>> /\ call.index = 0
  /\ result = Raise("StopIteration")

\* C10: nth with an index >= 0 on an iterator of r elements consumes the first
\* min(index + 1, r) of them and no other.
C10_NthConsumes ==
  call.op = "nth" /\ call.index >= 0 =>
    LET r == Len(call.iterable)
    IN it = SubSeq(call.iterable, Min(call.index + 1, r) + 1, r)

\* two nth(it, 0) calls in a row: the second returned the second element
C10_Witness ==
  /\ call.op = "nth" /\ call.index = 0
  /\ call.iterable = <<20, 30>> /\ result = Return(20) /\ it = <<30>>

\* C7: with a delimiter of one character, cleave returns what is before its
\* first occurrence (anterior true) or after it (anterior false), so that
\* before + delimiter + after is the string; without an occurrence it
\* returns the string.
C7_CleaveSplitsAtFirst ==
  Done("cleave") /\ Len(call.char) = 1 =>
    IF \E i \in 1..Len(call.string) : call.string[i] = call.char[1]
    THEN LET before == IF call.anterior THEN result.val
                       ELSE cleave(call.string, call.char, TRUE)
             after == IF call.anterior THEN cleave(call.string, call.char, FALSE)
                      ELSE result.val
         IN /\ result.kind = "return"
            /\ before \o call.char \o after = call.string
            /\ \A i \in 1..Len(before) : before[i] # call.char[1]
    ELSE result = Return(call.string)

\* the text after the first of two delimiters
C7_Witness ==
  /\ Done("cleave") /\ call.string = <<"a", "@", "@">> /\ call.char = <<"@">>
  /\ call.anterior = FALSE /\ result = Return(<<"@">>)

\* A path is the sequence of child positions that leads from a value to a
\* node below it. Depth-first left-to-right (pre-order) is the lexicographic
\* order of the paths in which a path comes before the paths it is a prefix of.
RECURSIVE NodeAt(_, _)
NodeAt(x, path) == IF path = <<>> THEN x ELSE NodeAt(Children(x)[Head(path)], Tail(path))

RECURSIVE Paths(_)
Paths(x) ==
  {<<>>} \cup UNION {{<<i>> \o q : q \in Paths(Children(x)[i])} : i \in 1..Len(Children(x))}

Before(p, q) ==
  \/ Len(p) < Len(q) /\ SubSeq(q, 1, Len(p)) = p
  \/ \E i \in 1..Min(Len(p), Len(q)) : SubSeq(p, 1, i - 1) = SubSeq(q, 1, i - 1) /\ p[i] < q[i]

RECURSIVE InOrder(_)
InOrder(ps) ==
  IF ps = {} THEN <<>>
  ELSE LET first == CHOOSE p \in ps : \A q \in ps \ {p} : Before(p, q)
       IN <<first>> \o InOrder(ps \ {first})

NodesInOrder(x, ps) == [j \in 1..Cardinality(ps) |-> NodeAt(x, InOrder(ps)[j])]

Front(path) == SubSeq(path, 1, Len(path) - 1)

\* C5: flatten yields the scalar leaves of a nested sequence, all of them and
\* nothing else, each once, in depth-first left-to-right order; an empty
\* sub-sequence adds nothing.
C5_FlattenLeavesInOrder ==
  Done("flatten") =>
    LET leaves == {p \in Paths(call.iterable) : NodeAt(call.iterable, p).t = "int"}
    IN result = Return(NodesInOrder(call.iterable, leaves))

\* [[], 1, (2,)]: an empty list, a scalar, a tuple
C5_Witness ==
  /\ Done("flatten")
  /\ call.iterable = List(<<List(<<>>), Scalar(1), Tuple(<<Scalar(2)>>)>>)
  /\ result = Return(<<Scalar(1), Scalar(2)>>)

\* C4: fetch yields the value of every dict entry whose key is the token, at
\* any depth, one value per entry, in depth-first pre-order: a matching
\* entry's value comes before the matches inside that value.
C4_FetchMatchesInOrder ==
  Done("fetch") =>
    LET x == call.iterable
        matches == {p \in Paths(x) \ {<<>>} :
                      /\ NodeAt(x, Front(p)).t = "dict"
                      /\ NodeAt(x, Front(p)).items[p[Len(p)]][1] = call.token}
    IN result = Return(NodesInOrder(x, matches))

\* {"a": [{"a": 1}]}: the matching list, then the match inside it
C4_Witness ==
  /\ Done("fetch") /\ call.token = "a"
  /\ call.iterable = Dict(<< <<"a", List(<<Dict(<< <<"a", Scalar(1)>> >>)>>)>> >>)
  /\ result = Return(<<List(<<Dict(<< <<"a", Scalar(1)>> >>)>>), Scalar(1)>>)

\* one left-to-right pass over the string: where a key starts, the first such
\* key in dict order is replaced by its value and the pass goes on after the
\* key; elsewhere the character is kept
RECURSIVE SinglePass(_, _, _)
SinglePass(characters, string, pos) ==
  IF pos >= Len(string) THEN <<>>
  ELSE LET here == {j \in 1..Len(characters) :
                      /\ pos + Len(characters[j][1]) <= Len(string)
                      /\ SubSeq(string, pos + 1, pos + Len(characters[j][1])) = characters[j][1]}
       IN IF here = {} THEN <<string[pos + 1]>> \o SinglePass(characters, string, pos + 1)
          ELSE LET j == CHOOSE j \in here : \A k \in here : j <= k
               IN characters[j][2] \o SinglePass(characters, string, pos + Len(characters[j][1]))

NonEmptyKeys(characters) == \A j \in 1..Len(characters) : characters[j][1] # <<>>

\* C3: multisub returns the string with every non-overlapping occurrence of a
\* key replaced in one left-to-right pass, the first matching key in dict
\* order winning at each position and the replacements never scanned again
\* (the keys being non-empty text).
C3_MultisubSinglePass ==
  Done("multisub") /\ NonEmptyKeys(call.characters) =>
    result = Return(SinglePass(call.characters, call.string, 0))

\* the same for a dict that has at least one key
MultisubSinglePassNonEmpty ==
  Done("multisub") /\ NonEmptyKeys(call.characters) /\ call.characters # <<>> =>
    result = Return(SinglePass(call.characters, call.string, 0))

\* C9: set, flatten, fetch, multisub and cleave do not fail on empty or
\* non-matching input: set with no pairs leaves the dict as it was, flatten
\* of an empty sequence and fetch without a match yield nothing, multisub with
\* an empty dict and cleave without the delimiter return the string.
C9_TotalOnEmptyInput ==
  /\ call.op = "set" /\ call.kwargs = <<>> =>
       data = call.self /\ result.kind # "raise"
  /\ Done("flatten") /\ call.iterable.items = <<>> => result = Return(<<>>)
  /\ Done("fetch")
       /\ (\/ call.iterable.items = <<>>
           \/ \A p \in Paths(call.iterable) :
                NodeAt(call.iterable, p).t = "dict" =>
                  \A i \in 1..Len(NodeAt(call.iterable, p).items) :
                    NodeAt(call.iterable, p).items[i][1] # call.token)
       => result = Return(<<>>)
  /\ Done("multisub") /\ call.characters = <<>> => result = Return(call.string)
  /\ Done("cleave") /\ ~Contains(call.string, call.char) => result = Return(call.string)

====
